---- MODULE Spec2Model ----
(***************************************************************************)
(* Model of pydantic/_internal/_repr.py: the PlainRepr string class, the   *)
(* Representation mixin (__repr_args__, __repr_name__, __repr_str__,       *)
(* __pretty__, __rich_repr__, __str__, __repr__) and display_as_type.      *)
(*                                                                         *)
(* A Python str is a sequence of one-character strings, so that quoting,   *)
(* escaping, concatenation and substring replacement are computed and not  *)
(* assumed.  A Python value is a record with the same four fields for      *)
(* every kind of value.  A call either returns or raises: see Ok / Raise.  *)
(***************************************************************************)
EXTENDS Integers, Sequences, FiniteSets, TLC

VARIABLES obj, obj0, ret, gens, reprSeen, texpr, shown

vars == <<obj, obj0, ret, gens, reprSeen, texpr, shown>>

(***************************************************************************)
(* Bounds of the model.                                                    *)
(***************************************************************************)
\* longest attribute-entry list of an object under Spec
MaxAttrs == 2
\* longest attribute-entry list of an object under SpecGen
MaxGenAttrs == 2
\* deepest nesting of a type expression under SpecType
MaxDepth == 3

(***************************************************************************)
(* Python values.                                                          *)
(***************************************************************************)
PyNone == [k |-> "none", n |-> 0, s |-> <<>>, t |-> <<>>]

PyInt(i) == [k |-> "int", n |-> i, s |-> <<>>, t |-> <<>>]

PyStr(chars) == [k |-> "str", n |-> 0, s |-> chars, t |-> <<>>]

\* PlainRepr(str): a str subclass, the content is kept as it is
PlainRepr(chars) == [k |-> "plain", n |-> 0, s |-> chars, t |-> <<>>]

PyTuple(items) == [k |-> "tuple", n |-> 0, s |-> <<>>, t |-> items]

\* a slot that was declared and never assigned (no Python value)
Unset == [k |-> "unset", n |-> 0, s |-> <<>>, t |-> <<>>]

\* the outcome of a call: a returned value, or a raised exception
Ok(v) == [ok |-> TRUE, val |-> v, exc |-> ""]

Raise(e) == [ok |-> FALSE, val |-> <<>>, exc |-> e]

(***************************************************************************)
(* Strings.                                                                *)
(***************************************************************************)
\* sep.join(parts), parts a sequence of strings
RECURSIVE Join(_, _)
Join(sep, parts) ==
  IF Len(parts) = 0 THEN <<>>
  ELSE IF Len(parts) = 1 THEN parts[1]
  ELSE parts[1] \o sep \o Join(sep, Tail(parts))

DigitChars == <<"0", "1", "2", "3", "4", "5", "6", "7", "8", "9">>

RECURSIVE Digits(_)
Digits(i) ==
  IF i < 10 THEN <<DigitChars[i + 1]>>
  ELSE Digits(i \div 10) \o <<DigitChars[(i % 10) + 1]>>

\* repr(int)
IntRepr(i) == IF i < 0 THEN <<"-">> \o Digits(-i) ELSE Digits(i)

Contains(chars, c) == \E i \in 1..Len(chars) : chars[i] = c

\* the quote repr(str) picks: double quotes only for a string that holds
\* a single quote and no double quote
QuoteOf(chars) ==
  IF Contains(chars, "'") /\ ~Contains(chars, "\"") THEN "\"" ELSE "'"

EscapeChar(c, q) ==
  IF c = "\\" \/ c = q THEN <<"\\", c>>
  ELSE IF c = "\n" THEN <<"\\", "n">>
  ELSE IF c = "\t" THEN <<"\\", "t">>
  ELSE IF c = "\r" THEN <<"\\", "r">>
  ELSE <<c>>

RECURSIVE EscapeAll(_, _)
EscapeAll(chars, q) ==
  IF chars = <<>> THEN <<>>
  ELSE EscapeChar(Head(chars), q) \o EscapeAll(Tail(chars), q)

\* repr(str) of a string of printable characters
StrRepr(chars) ==
  LET q == QuoteOf(chars) IN <<q>> \o EscapeAll(chars, q) \o <<q>>

\* PlainRepr.__repr__: return str(self)
PlainRepr_repr(self) == self.s

\* repr(v), the !r conversion
RECURSIVE PyRepr(_)
PyRepr(v) ==
  CASE v.k = "none" -> <<"N", "o", "n", "e">>
    [] v.k = "int" -> IntRepr(v.n)
    [] v.k = "str" -> StrRepr(v.s)
    [] v.k = "plain" -> PlainRepr_repr(v)
    [] v.k = "tuple" ->
         <<"(">> \o Join(<<",", " ">>, [i \in 1..Len(v.t) |-> PyRepr(v.t[i])])
                 \o (IF Len(v.t) = 1 THEN <<",">> ELSE <<>>) \o <<")">>

\* str(v) of a str or a PlainRepr, as the f-string's {a} formats a name
PyStrOf(v) == v.s

\* bool(v): the truth value of a name in "if a"
Truthy(v) ==
  CASE v.k = "none" -> FALSE
    [] v.k = "int" -> v.n # 0
    [] v.k \in {"str", "plain"} -> v.s # <<>>
    [] v.k = "tuple" -> v.t # <<>>

(***************************************************************************)
(* Representation objects.                                                 *)
(*   cls      the name of the object's class                               *)
(*   custom   the class overrides __repr_args__, which returns entries     *)
(*   slots    what getattr(self, '__slots__', None) gives: Representation  *)
(*            itself sets the empty tuple, a subclass may declare names    *)
(*   slotvals the values of the slots, Unset for one never assigned        *)
(*   hasDict  the instance has a __dict__                                  *)
(*   dict     the __dict__ in insertion order                              *)
(* An attribute entry is [name, value], name being PyNone or a PyStr.      *)
(***************************************************************************)
Entry(name, value) == [name |-> name, value |-> value]

RepObject(cls, custom, entries, slots, slotvals, hasDict, dict) ==
  [cls |-> cls, custom |-> custom, entries |-> entries, slots |-> slots,
   slotvals |-> slotvals, hasDict |-> hasDict, dict |-> dict]

IndexOf(names, s) == CHOOSE i \in 1..Len(names) : names[i] = s

\* getattr(self, s), s a name out of __slots__ or of __dict__
GetAttr(self, s) ==
  IF \E i \in 1..Len(self.slots) : self.slots[i] = s
  THEN LET v == self.slotvals[IndexOf(self.slots, s)]
       IN IF v = Unset THEN Raise("AttributeError") ELSE Ok(v)
  ELSE IF self.hasDict /\ \E i \in 1..Len(self.dict) : self.dict[i].name = PyStr(s)
  THEN Ok((CHOOSE e \in {self.dict[i] : i \in 1..Len(self.dict)} : e.name = PyStr(s)).value)
  ELSE Raise("AttributeError")

\* attrs_names = getattr(self, '__slots__', None) or self.__dict__.keys()
AttrsNames(self) ==
  IF self.slots # <<>> THEN Ok(self.slots)
  ELSE IF self.hasDict THEN Ok([i \in 1..Len(self.dict) |-> self.dict[i].name.s])
  ELSE Raise("AttributeError")

\* [(s, getattr(self, s)) for s in names if getattr(self, s) is not None]
RECURSIVE CollectAttrs(_, _)
CollectAttrs(self, names) ==
  IF names = <<>> THEN Ok(<<>>)
  ELSE LET g == GetAttr(self, Head(names))
       IN IF ~g.ok THEN g
          ELSE LET rest == CollectAttrs(self, Tail(names))
               IN IF ~rest.ok THEN rest
                  ELSE Ok((IF g.val # PyNone
                           THEN <<Entry(PyStr(Head(names)), g.val)>>
                           ELSE <<>>) \o rest.val)

\* Representation.__repr_args__, or the override of a class that has one
ReprArgs(self) ==
  IF self.custom THEN Ok(self.entries)
  ELSE LET names == AttrsNames(self)
       IN IF ~names.ok THEN names ELSE CollectAttrs(self, names.val)

\* Representation.__repr_name__
ReprName(self) == self.cls

\* f'{a}={v!r}' if a else repr(v)
RenderEntry(e) ==
  IF Truthy(e.name) THEN PyStrOf(e.name) \o <<"=">> \o PyRepr(e.value)
  ELSE PyRepr(e.value)

\* Representation.__repr_str__
ReprStr(self, join_str) ==
  LET args == ReprArgs(self)
  IN IF ~args.ok THEN args
     ELSE Ok(Join(join_str, [i \in 1..Len(args.val) |-> RenderEntry(args.val[i])]))

\* Representation.__str__
Str(self) == ReprStr(self, <<" ">>)

\* __repr__ joining the entries as __str__ does
ReprJoinedBySpace(self) ==
  LET body == ReprStr(self, <<" ">>)
  IN IF ~body.ok THEN body
     ELSE Ok(ReprName(self) \o <<"(">> \o body.val \o <<")">>)

\* Representation.__repr__
Repr(self) ==
  LET body == ReprStr(self, <<",", " ">>)
  IN IF ~body.ok THEN body
     ELSE Ok(ReprName(self) \o <<"(">> \o body.val \o <<")">>)

(***************************************************************************)
(* The objects and values the calls are made on.                           *)
(***************************************************************************)
SeqsUpTo(S, n) == UNION {[1..m -> S] : m \in 0..n}

Distinct(names) == \A i, j \in 1..Len(names) : names[i] = names[j] => i = j

Foo == <<"F", "o", "o">>

ClassNames == {Foo, <<"D">>}

AttrNames == {<<"a">>, <<"b">>, <<"c">>}

EntryNames == {PyNone, PyStr(<<>>), PyStr(<<"a">>)}

Values ==
  {PyNone, PyInt(1), PyStr(<<"x">>), PyStr(<<"a", "b", "c">>),
   PlainRepr(<<"a", "b", "c">>), PyTuple(<<PyStr(<<"a">>), PyInt(1)>>)}

\* classes that override __repr_args__
CustomObjects ==
  {RepObject(c, TRUE, es, <<>>, <<>>, TRUE, <<>>) :
     c \in ClassNames,
     es \in SeqsUpTo({Entry(nm, v) : nm \in EntryNames, v \in Values}, MaxAttrs)}

\* classes that declare __slots__ and have no __dict__ (an empty
\* declaration is Representation itself or class E(Representation): __slots__ = ())
SlotObjects ==
  {RepObject(Foo, FALSE, <<>>, p[1], p[2], FALSE, <<>>) :
     p \in {q \in SeqsUpTo(AttrNames, MaxAttrs) \X SeqsUpTo(Values \cup {Unset}, MaxAttrs) :
              Distinct(q[1]) /\ Len(q[1]) = Len(q[2])}}

\* classes that inherit the empty __slots__ and keep attributes in __dict__
DictObjects ==
  {RepObject(Foo, FALSE, <<>>, <<>>, <<>>, TRUE,
             [i \in 1..Len(p[1]) |-> Entry(PyStr(p[1][i]), p[2][i])]) :
     p \in {q \in SeqsUpTo(AttrNames, MaxAttrs) \X SeqsUpTo(Values, MaxAttrs) :
              Distinct(q[1]) /\ Len(q[1]) = Len(q[2])}}

Objects == CustomObjects \cup SlotObjects \cup DictObjects

Seps == {<<",", " ">>, <<" ">>}

\* no Representation object, and no input of display_as_type
NoObject == RepObject(<<>>, TRUE, <<>>, <<>>, <<>>, TRUE, <<>>)

Node(kind, name, qualname, hasQual, module, typing, args, vals, text, cls, o) ==
  [kind |-> kind, name |-> name, qualname |-> qualname, hasQual |-> hasQual,
   module |-> module, typing |-> typing, args |-> args, vals |-> vals,
   text |-> text, cls |-> cls, obj |-> o]

NoType == Node("none", <<>>, <<>>, FALSE, <<>>, FALSE, <<>>, <<>>, <<>>, <<>>, NoObject)

NoCall == [op |-> "none", arg |-> <<>>, res |-> Ok(<<>>)]

NoGens == <<>>

NotShown == Raise("not called")

(***************************************************************************)
(* Spec: the string operations of a Representation object.                 *)
(***************************************************************************)
Init ==
  /\ obj \in Objects
  /\ obj0 = obj
  /\ ret = NoCall
  /\ gens = NoGens
  /\ reprSeen = {}
  /\ texpr = NoType
  /\ shown = NotShown

CallReprArgs ==
  /\ ret' = [op |-> "repr_args", arg |-> <<>>, res |-> ReprArgs(obj)]
  /\ UNCHANGED <<obj, obj0, gens, reprSeen, texpr, shown>>

CallReprName ==
  /\ ret' = [op |-> "repr_name", arg |-> <<>>, res |-> Ok(ReprName(obj))]
  /\ UNCHANGED <<obj, obj0, gens, reprSeen, texpr, shown>>

CallReprStr(join_str) ==
  /\ ret' = [op |-> "repr_str", arg |-> join_str, res |-> ReprStr(obj, join_str)]
  /\ UNCHANGED <<obj, obj0, gens, reprSeen, texpr, shown>>

CallStr ==
  /\ ret' = [op |-> "str", arg |-> <<>>, res |-> Str(obj)]
  /\ UNCHANGED <<obj, obj0, gens, reprSeen, texpr, shown>>

CallRepr ==
  /\ ret' = [op |-> "repr", arg |-> <<>>, res |-> Repr(obj)]
  /\ reprSeen' = reprSeen \cup {Repr(obj)}
  /\ UNCHANGED <<obj, obj0, gens, texpr, shown>>

Next ==
  \/ CallReprArgs
  \/ CallReprName
  \/ \E join_str \in Seps : CallReprStr(join_str)
  \/ CallStr
  \/ CallRepr

Spec == Init /\ [][Next]_vars

(***************************************************************************)
(* The generators of __pretty__ and __rich_repr__.  A generator is the     *)
(* frame of one call: the formatter it was given, where it stands (pc),    *)
(* the list __repr_args__ returned to it, the index of the entry it is at, *)
(* and what it has yielded so far.  Nothing runs before the first next().  *)
(***************************************************************************)
GenIds == {1, 2}

Fmts == {"repr", "comma"}

\* the formatter the caller hands to __pretty__
Fmt(f, v) == IF f = "repr" THEN PyStr(PyRepr(v)) ELSE PyStr(<<",">>)

NoGen == [kind |-> "none", fmt |-> "", pc |-> "none", args |-> <<>>, i |-> 0, out |-> <<>>]

NewGen(kind, f) == [kind |-> kind, fmt |-> f, pc |-> "start", args |-> <<>>, i |-> 0, out |-> <<>>]

Yield(g, token, pc) == [g EXCEPT !.out = Append(@, token), !.pc = pc]

\* "if name is not None" of __pretty__, said of the names that are not
\* the empty string only
PrettyNamedIfTruthy(e) == Truthy(e.name)

\* if name is not None
PrettyNamed(e) == e.name # PyNone

\* the head of the for loop of __pretty__ with the entry index at g.i:
\* the first yield of the entry, or the yield after the loop
PrettyLoop(g) ==
  IF g.i > Len(g.args) THEN Yield(g, PyInt(-1), "close")
  ELSE LET e == g.args[g.i]
       IN IF PrettyNamed(e) THEN Yield(g, PyStr(PyStrOf(e.name) \o <<"=">>), "value")
          ELSE Yield(g, Fmt(g.fmt, e.value), "comma")

\* one next() on a generator of __pretty__
PrettyResume(self, g) ==
  CASE g.pc = "start" -> Yield(g, PyStr(ReprName(self) \o <<"(">>), "indent")
    [] g.pc = "indent" -> Yield(g, PyInt(1), "loop")
    [] g.pc = "loop" ->
         LET args == ReprArgs(self)
         IN IF ~args.ok THEN [g EXCEPT !.pc = "raised"]
            ELSE PrettyLoop([g EXCEPT !.args = args.val, !.i = 1])
    [] g.pc = "value" -> Yield(g, Fmt(g.fmt, g.args[g.i].value), "comma")
    [] g.pc = "comma" -> Yield(g, PyStr(<<",">>), "newline")
    [] g.pc = "newline" -> Yield(g, PyInt(0), "next")
    [] g.pc = "next" -> PrettyLoop([g EXCEPT !.i = @ + 1])
    [] g.pc = "close" -> Yield(g, PyStr(<<")">>), "end")
    [] g.pc = "end" -> [g EXCEPT !.pc = "done"]

\* what __rich_repr__ yields for an entry, taking every name that is
\* false (None and the empty string) as absent
RichItemIfFalsy(e) ==
  IF ~Truthy(e.name) THEN e.value ELSE PyTuple(<<e.name, e.value>>)

\* what __rich_repr__ yields for an entry
RichItem(e) ==
  IF e.name = PyNone THEN e.value ELSE PyTuple(<<e.name, e.value>>)

\* the head of the for loop of __rich_repr__ with the entry index at g.i
RichLoop(g) ==
  IF g.i > Len(g.args) THEN [g EXCEPT !.pc = "done"]
  ELSE Yield(g, RichItem(g.args[g.i]), "next")

\* one next() on a generator of __rich_repr__
RichResume(self, g) ==
  CASE g.pc = "start" ->
         LET args == ReprArgs(self)
         IN IF ~args.ok THEN [g EXCEPT !.pc = "raised"]
            ELSE RichLoop([g EXCEPT !.args = args.val, !.i = 1])
    [] g.pc = "next" -> RichLoop([g EXCEPT !.i = @ + 1])

Running(g) == g.kind # "none" /\ g.pc \notin {"done", "raised", "closed"}

(***************************************************************************)
(* SpecGen: two callers take generators of the hooks of one object, step   *)
(* them in any order, abandon them, and call __repr__ in between.          *)
(***************************************************************************)
\* the entries of the objects: unnamed, named by the empty string, named
\* 'a'; the unnamed tuple ('a', 1) is what __rich_repr__ yields for a=1
GenEntries ==
  {Entry(PyNone, PyInt(1)),
   Entry(PyNone, PyTuple(<<PyStr(<<"a">>), PyInt(1)>>)),
   Entry(PyStr(<<>>), PyInt(1)),
   Entry(PyStr(<<"a">>), PyInt(1))}

GenObjects ==
  {RepObject(Foo, TRUE, es, <<>>, <<>>, TRUE, <<>>) : es \in SeqsUpTo(GenEntries, MaxGenAttrs)}
  \cup {RepObject(Foo, FALSE, <<>>, <<<<"a">>, <<"b">>>>, <<PyInt(1), PyNone>>, FALSE, <<>>),
        RepObject(Foo, FALSE, <<>>, <<>>, <<>>, TRUE, <<Entry(PyStr(<<"b">>), PyInt(1))>>),
        RepObject(Foo, FALSE, <<>>, <<>>, <<>>, FALSE, <<>>)}

InitGen ==
  /\ obj \in GenObjects
  /\ obj0 = obj
  /\ ret = NoCall
  /\ gens = [id \in GenIds |-> NoGen]
  /\ reprSeen = {}
  /\ texpr = NoType
  /\ shown = NotShown

\* gen = obj.__pretty__(fmt)
CallPretty(id, f) ==
  /\ gens[id].kind = "none" \/ gens[id].pc = "closed"
  /\ gens' = [gens EXCEPT ![id] = NewGen("pretty", f)]
  /\ UNCHANGED <<obj, obj0, ret, reprSeen, texpr, shown>>

\* gen = obj.__rich_repr__()
CallRichRepr(id) ==
  /\ gens[id].kind = "none" \/ gens[id].pc = "closed"
  /\ gens' = [gens EXCEPT ![id] = NewGen("rich", "")]
  /\ UNCHANGED <<obj, obj0, ret, reprSeen, texpr, shown>>

\* next(gen) on a generator that pops the entries off the object's own list
GenNextConsuming(id) ==
  /\ Running(gens[id])
  /\ gens' = [gens EXCEPT ![id] = IF @.kind = "pretty" THEN PrettyResume(obj, @)
                                   ELSE RichResume(obj, @)]
  /\ obj' = IF gens'[id].i > gens[id].i /\ obj.entries # <<>>
            THEN [obj EXCEPT !.entries = Tail(@)] ELSE obj
  /\ UNCHANGED <<obj0, ret, reprSeen, texpr, shown>>

\* next(gen)
GenNext(id) ==
  /\ Running(gens[id])
  /\ gens' = [gens EXCEPT ![id] = IF @.kind = "pretty" THEN PrettyResume(obj, @)
                                   ELSE RichResume(obj, @)]
  /\ UNCHANGED <<obj, obj0, ret, reprSeen, texpr, shown>>

\* gen.close(), or the generator is dropped before it is exhausted
GenClose(id) ==
  /\ Running(gens[id])
  /\ gens' = [gens EXCEPT ![id] = [NoGen EXCEPT !.kind = gens[id].kind, !.pc = "closed"]]
  /\ UNCHANGED <<obj, obj0, ret, reprSeen, texpr, shown>>

NextGen ==
  \/ \E id \in GenIds, f \in Fmts : CallPretty(id, f)
  \/ \E id \in GenIds : CallRichRepr(id)
  \/ \E id \in GenIds : GenNext(id)
  \/ \E id \in GenIds : GenClose(id)
  \/ CallRepr

SpecGen == InitGen /\ [][NextGen]_vars

(***************************************************************************)
(* The inputs of display_as_type.  A node stands for one Python object:    *)
(*   kind     func (types.FunctionType), ellipsis, repr (an instance of a  *)
(*            Representation class), alias (a TypeAliasType), value (any   *)
(*            other instance), class, union, param (a parameterized        *)
(*            generic), literal, special (a typing object that is none of  *)
(*            these: typing.List, a TypeVar)                               *)
(*   name, qualname, module   __name__, __qualname__, __module__           *)
(*   hasQual  the object has a __qualname__                                *)
(*   typing   the object is an instance of typing._Final (typing_base)     *)
(*   args     typing_extensions.get_args(obj), nodes                       *)
(*   vals     the values of a literal; the value of a value node           *)
(*   text     str(obj) of an alias, repr(obj) of a special                 *)
(*   cls      the __qualname__ of obj.__class__                            *)
(*   obj      the Representation object of a repr node                     *)
(***************************************************************************)
Builtins == <<"b", "u", "i", "l", "t", "i", "n", "s">>

ClassNode(name, qualname, module) ==
  Node("class", name, qualname, TRUE, module, FALSE, <<>>, <<>>, <<>>, <<"t", "y", "p", "e">>, NoObject)

FuncNode(name, qualname) ==
  Node("func", name, qualname, TRUE, <<"m">>, FALSE, <<>>, <<>>, <<>>, <<"f", "u", "n", "c", "t", "i", "o", "n">>, NoObject)

EllipsisNode ==
  Node("ellipsis", <<>>, <<>>, FALSE, <<>>, FALSE, <<>>, <<>>, <<>>, <<"e", "l", "l", "i", "p", "s", "i", "s">>, NoObject)

ReprNode(o) ==
  Node("repr", <<>>, <<>>, FALSE, <<>>, FALSE, <<>>, <<>>, <<>>, o.cls, o)

AliasNode(name) ==
  Node("alias", name, <<>>, FALSE, <<"m">>, FALSE, <<>>, <<>>, name, <<"T", "y", "p", "e", "A", "l", "i", "a", "s", "T", "y", "p", "e">>, NoObject)

\* the __qualname__ of type(v)
ValueClass(v) ==
  CASE v.k = "none" -> <<"N", "o", "n", "e", "T", "y", "p", "e">>
    [] v.k = "int" -> <<"i", "n", "t">>
    [] v.k = "str" -> <<"s", "t", "r">>
    [] v.k = "plain" -> <<"P", "l", "a", "i", "n", "R", "e", "p", "r">>
    [] v.k = "tuple" -> <<"t", "u", "p", "l", "e">>

ValueNode(v) ==
  Node("value", <<>>, <<>>, FALSE, <<>>, FALSE, <<>>, <<v>>, <<>>, ValueClass(v), NoObject)

SpecialNode(text, cls) ==
  Node("special", <<>>, <<>>, FALSE, <<"t", "y", "p", "i", "n", "g">>, TRUE, <<>>, <<>>, text, cls, NoObject)

\* typing.Literal[v1, ...]
LiteralNode(vals) ==
  Node("literal", <<"L", "i", "t", "e", "r", "a", "l">>, <<"L", "i", "t", "e", "r", "a", "l">>, TRUE, <<"t", "y", "p", "i", "n", "g">>, TRUE, <<>>, vals, <<>>,
       <<"_", "L", "i", "t", "e", "r", "a", "l", "G", "e", "n", "e", "r", "i", "c", "A", "l", "i", "a", "s">>, NoObject)

\* typing.List[...], typing.Tuple[...]: an instance of typing._GenericAlias
TypingGeneric(name, args) ==
  Node("param", name, name, TRUE, <<"t", "y", "p", "i", "n", "g">>, TRUE, args, <<>>, <<>>,
       <<"_", "G", "e", "n", "e", "r", "i", "c", "A", "l", "i", "a", "s">>, NoObject)

\* list[...]: an instance of types.GenericAlias, which hands __qualname__ on
\* to its origin
BuiltinGeneric(name, args) ==
  Node("param", name, name, TRUE, Builtins, FALSE, args, <<>>, <<>>,
       <<"G", "e", "n", "e", "r", "i", "c", "A", "l", "i", "a", "s">>, NoObject)

\* A[...] for "type A[T] = ...": a types.GenericAlias whose origin, a
\* TypeAliasType, has no __qualname__
AliasGeneric(name, args) ==
  Node("param", name, <<>>, FALSE, <<"m">>, FALSE, args, <<>>, <<>>,
       <<"G", "e", "n", "e", "r", "i", "c", "A", "l", "i", "a", "s">>, NoObject)

\* X | Y: a types.UnionType
BarUnion(args) ==
  Node("union", <<>>, <<>>, FALSE, <<"t", "y", "p", "e", "s">>, FALSE, args, <<>>, <<>>,
       <<"U", "n", "i", "o", "n", "T", "y", "p", "e">>, NoObject)

RECURSIVE Flatten(_)
Flatten(members) ==
  IF members = <<>> THEN <<>>
  ELSE (IF Head(members).kind = "union" THEN Head(members).args ELSE <<Head(members)>>)
         \o Flatten(Tail(members))

RECURSIVE Dedupe(_)
Dedupe(members) ==
  IF members = <<>> THEN <<>>
  ELSE LET front == Dedupe(SubSeq(members, 1, Len(members) - 1))
           last == members[Len(members)]
       IN IF \E i \in 1..Len(front) : front[i] = last THEN front
          ELSE Append(front, last)

\* typing.Union[m1, ...]: typing flattens nested unions, drops repeated
\* members and gives the member itself when one is left
TypingUnion(members) ==
  LET ms == Dedupe(Flatten(members))
  IN IF Len(ms) = 1 THEN ms[1]
     ELSE Node("union", <<"U", "n", "i", "o", "n">>, <<"U", "n", "i", "o", "n">>, TRUE, <<"t", "y", "p", "i", "n", "g">>, TRUE, ms, <<>>, <<>>,
               <<"_", "U", "n", "i", "o", "n", "G", "e", "n", "e", "r", "i", "c", "A", "l", "i", "a", "s">>, NoObject)

\* isinstance(obj, types.FunctionType)
IsFunctionType(o) == o.kind = "func"

\* obj is ...
IsEllipsis(o) == o.kind = "ellipsis"

\* isinstance(obj, Representation)
IsRepresentation(o) == o.kind = "repr"

\* isinstance(obj, typing_extensions.TypeAliasType)
IsTypeAliasType(o) == o.kind = "alias"

\* isinstance(obj, _typing_extra.typing_base)
IsTypingBase(o) == o.typing

\* isinstance(obj, _typing_extra.WithArgsTypes)
IsWithArgs(o) == o.kind \in {"union", "param", "literal"}

\* isinstance(obj, type)
IsType(o) == o.kind = "class"

\* _typing_extra.origin_is_union(typing_extensions.get_origin(obj))
OriginIsUnion(o) == o.kind = "union"

\* typing_extensions.get_origin(obj) == typing_extensions.Literal
OriginIsLiteral(o) == o.kind = "literal"

\* obj.__class__
ClassOf(o) == ClassNode(o.cls, o.cls, Builtins)

\* s.replace(pat, '')
RECURSIVE RemoveAll(_, _)
RemoveAll(chars, pat) ==
  IF Len(chars) < Len(pat) THEN chars
  ELSE IF SubSeq(chars, 1, Len(pat)) = pat
  THEN RemoveAll(SubSeq(chars, Len(pat) + 1, Len(chars)), pat)
  ELSE <<Head(chars)>> \o RemoveAll(Tail(chars), pat)

\* str(obj) and repr(obj) of a type object, as typing and types print it:
\* an argument that is a class prints as its name (with its module unless
\* builtins), ... as '...', any other argument as its own repr
RECURSIVE ObjRepr(_)
ArgRepr(o) ==
  IF o.kind = "class"
  THEN (IF o.module = Builtins THEN <<>> ELSE o.module \o <<".">>) \o o.qualname
  ELSE IF o.kind = "ellipsis" THEN <<".", ".", ".">>
  ELSE ObjRepr(o)

ObjRepr(o) ==
  CASE o.kind = "union" ->
         IF o.typing
         THEN <<"t", "y", "p", "i", "n", "g", ".", "U", "n", "i", "o", "n", "[">>
                \o Join(<<",", " ">>, [i \in 1..Len(o.args) |-> ArgRepr(o.args[i])]) \o <<"]">>
         ELSE Join(<<" ", "|", " ">>, [i \in 1..Len(o.args) |-> ArgRepr(o.args[i])])
    [] o.kind = "param" ->
         (IF o.typing THEN <<"t", "y", "p", "i", "n", "g", ".">> ELSE <<>>) \o o.name \o <<"[">>
           \o Join(<<",", " ">>, [i \in 1..Len(o.args) |-> ArgRepr(o.args[i])]) \o <<"]">>
    [] o.kind = "literal" ->
         <<"t", "y", "p", "i", "n", "g", ".", "L", "i", "t", "e", "r", "a", "l", "[">>
           \o Join(<<",", " ">>, [i \in 1..Len(o.vals) |-> PyRepr(o.vals[i])]) \o <<"]">>
    [] o.kind = "value" -> PyRepr(o.vals[1])
    [] o.kind = "class" -> <<"<", "c", "l", "a", "s", "s", " ", "'">> \o ArgRepr(o) \o <<"'", ">">>
    [] OTHER -> o.text

\* the first failure of a sequence of outcomes, or the sequence of values
AllOk(results) ==
  IF \E i \in 1..Len(results) : ~results[i].ok
  THEN results[CHOOSE i \in 1..Len(results) :
                 ~results[i].ok /\ \A j \in 1..(i - 1) : results[j].ok]
  ELSE Ok([i \in 1..Len(results) |-> results[i].val])

\* the arguments of a literal displayed as the types of its values
LiteralArgsAsTypes(o) ==
  Join(<<",", " ">>, [i \in 1..Len(o.vals) |-> ValueClass(o.vals[i])])

\* ', '.join(map(repr, typing_extensions.get_args(obj)))
LiteralArgs(o) ==
  Join(<<",", " ">>, [i \in 1..Len(o.vals) |-> PyRepr(o.vals[i])])

\* the return of the parameterized branch without the except clause
QualnameOrRaise(o, args) ==
  IF o.hasQual THEN Ok(o.qualname \o <<"[">> \o args \o <<"]">>)
  ELSE Raise("AttributeError")

\* try: return f'{obj.__qualname__}[{args}]'
\* except AttributeError: return str(obj)
QualnameOrStr(o, args) ==
  IF o.hasQual THEN Ok(o.qualname \o <<"[">> \o args \o <<"]">>)
  ELSE Ok(ObjRepr(o))

\* the input kept as it is, whatever it is
RetargetNever(o) == o

\* if not isinstance(obj, (typing_base, WithArgsTypes, type)): obj = obj.__class__
Retarget(o) ==
  IF ~(IsTypingBase(o) \/ IsWithArgs(o) \/ IsType(o)) THEN ClassOf(o) ELSE o

\* display_as_type
RECURSIVE display_as_type(_)
display_as_type(input) ==
  IF IsFunctionType(input) THEN Ok(input.name)
  ELSE IF IsEllipsis(input) THEN Ok(<<".", ".", ".">>)
  ELSE IF IsRepresentation(input) THEN Repr(input.obj)
  ELSE IF IsTypeAliasType(input) THEN Ok(input.text)
  ELSE
    LET o == Retarget(input)
        shownArgs == AllOk([i \in 1..Len(o.args) |-> display_as_type(o.args[i])])
    IN IF OriginIsUnion(o)
       THEN IF ~shownArgs.ok THEN shownArgs
            ELSE Ok(<<"U", "n", "i", "o", "n", "[">> \o Join(<<",", " ">>, shownArgs.val) \o <<"]">>)
       ELSE IF IsWithArgs(o)
       THEN IF OriginIsLiteral(o) THEN QualnameOrStr(o, LiteralArgs(o))
            ELSE IF ~shownArgs.ok THEN shownArgs
            ELSE QualnameOrStr(o, Join(<<",", " ">>, shownArgs.val))
       ELSE IF IsType(o) THEN Ok(o.qualname)
       ELSE Ok(RemoveAll(RemoveAll(ObjRepr(o), <<"t", "y", "p", "i", "n", "g", ".">>), <<"t", "y", "p", "i", "n", "g", "_", "e", "x", "t", "e", "n", "s", "i", "o", "n", "s", ".">>))

(***************************************************************************)
(* SpecType: a caller builds an input (a leaf, then generics and unions    *)
(* around it) and calls display_as_type on it.                             *)
(***************************************************************************)
IntClass == ClassNode(<<"i", "n", "t">>, <<"i", "n", "t">>, Builtins)

StrClass == ClassNode(<<"s", "t", "r">>, <<"s", "t", "r">>, Builtins)

\* class Outer: class Inner: ..., in module m
InnerClass == ClassNode(<<"I", "n", "n", "e", "r">>, <<"O", "u", "t", "e", "r", ".", "I", "n", "n", "e", "r">>, <<"m">>)

\* Literal[1, 'x']
Literal1x == LiteralNode(<<PyInt(1), PyStr(<<"x">>)>>)

\* Representation()
BareRepresentation ==
  RepObject(<<"R", "e", "p", "r", "e", "s", "e", "n", "t", "a", "t", "i", "o", "n">>, FALSE, <<>>, <<>>, <<>>, FALSE, <<>>)

\* the leaves that are types
\* (str | Inner has the members of no typing.Union built here: typing
\* takes unions of the same members as equal whatever made them)
TypeLeaves == {IntClass, StrClass, InnerClass, Literal1x, BarUnion(<<StrClass, InnerClass>>)}

\* the leaves that are not
OtherLeaves ==
  {FuncNode(<<"f", "o", "o">>, <<"O", "u", "t", "e", "r", ".", "f", "o", "o">>), EllipsisNode, AliasNode(<<"M", "y", "A", "l", "i", "a", "s">>),
   ReprNode(BareRepresentation),
   ReprNode(RepObject(Foo, TRUE,
                      <<Entry(PyStr(<<"a">>), PyInt(1)), Entry(PyNone, PyStr(<<"x">>))>>,
                      <<>>, <<>>, TRUE, <<>>)),
   ReprNode(RepObject(Foo, TRUE, <<>>, <<>>, <<>>, TRUE, <<>>)),
   ValueNode(PyStr(<<"x">>)), ValueNode(PyInt(1)), ValueNode(PyTuple(<<PyInt(1)>>)),
   SpecialNode(<<"t", "y", "p", "i", "n", "g", ".", "L", "i", "s", "t">>, <<"_", "S", "p", "e", "c", "i", "a", "l", "G", "e", "n", "e", "r", "i", "c", "A", "l", "i", "a", "s">>),
   SpecialNode(<<"~", "T">>, <<"T", "y", "p", "e", "V", "a", "r">>),
   SpecialNode(<<"t", "y", "p", "i", "n", "g", "_", "e", "x", "t", "e", "n", "s", "i", "o", "n", "s", ".", "R", "e", "a", "d", "O", "n", "l", "y">>,
               <<"_", "E", "x", "t", "e", "n", "s", "i", "o", "n", "s", "S", "p", "e", "c", "i", "a", "l", "F", "o", "r", "m">>)}

\* the leaves put beside the input in a two-argument generic or a union
Siblings == {IntClass, Literal1x}

RECURSIVE Depth(_)
Depth(o) ==
  IF o.args = <<>> THEN 0
  ELSE LET ds == {Depth(o.args[i]) : i \in 1..Len(o.args)}
       IN 1 + CHOOSE d \in ds : \A e \in ds : e <= d

\* The order in which this caller writes the members of a union: int, str,
\* Inner, a literal, then a generic.  typing memoizes List[...], Tuple[...]
\* and Union[...] and takes two unions of the same members as equal whatever
\* their order, so a subscription gives back the object built first; with
\* one order per set of members that object is the one written.
Rank(o) ==
  IF o = IntClass THEN 1
  ELSE IF o = StrClass THEN 2
  ELSE IF o = InnerClass THEN 3
  ELSE IF o.kind = "literal" THEN 4
  ELSE 5

InWrittenOrder(o) ==
  o.kind = "union" => \A i \in 1..(Len(o.args) - 1) : Rank(o.args[i]) < Rank(o.args[i + 1])

\* what may stand as an argument of a generic or a member of a union
IsTypeExpr(o) == o.kind \in {"class", "union", "param", "literal"}

InitType ==
  /\ obj = NoObject
  /\ obj0 = obj
  /\ ret = NoCall
  /\ gens = NoGens
  /\ reprSeen = {}
  /\ texpr = NoType
  /\ shown = NotShown

NewInput(leaf) ==
  /\ texpr' = leaf
  /\ shown' = NotShown
  /\ UNCHANGED <<obj, obj0, ret, gens, reprSeen>>

\* List[texpr], list[texpr], A[texpr]
WrapOne(head) ==
  /\ IsTypeExpr(texpr) /\ Depth(texpr) < MaxDepth
  /\ texpr' = CASE head = "List" -> TypingGeneric(<<"L", "i", "s", "t">>, <<texpr>>)
                [] head = "list" -> BuiltinGeneric(<<"l", "i", "s", "t">>, <<texpr>>)
                [] head = "A" -> AliasGeneric(<<"A">>, <<texpr>>)
  /\ shown' = NotShown
  /\ UNCHANGED <<obj, obj0, ret, gens, reprSeen>>

\* Tuple[texpr, sib], Tuple[sib, texpr], Tuple[texpr, ...]
WrapTuple(args) ==
  /\ IsTypeExpr(texpr) /\ Depth(texpr) < MaxDepth
  /\ texpr' = TypingGeneric(<<"T", "u", "p", "l", "e">>, args)
  /\ shown' = NotShown
  /\ UNCHANGED <<obj, obj0, ret, gens, reprSeen>>

\* Union[texpr, sib], Union[sib, texpr], the members in the written order
WrapUnion(members) ==
  /\ IsTypeExpr(texpr) /\ Depth(texpr) < MaxDepth
  /\ InWrittenOrder(TypingUnion(members))
  /\ texpr' = TypingUnion(members)
  /\ shown' = NotShown
  /\ UNCHANGED <<obj, obj0, ret, gens, reprSeen>>

\* display_as_type(texpr)
DisplayAsType ==
  /\ texpr.kind # "none"
  /\ shown = NotShown
  /\ shown' = display_as_type(texpr)
  /\ UNCHANGED <<obj, obj0, ret, gens, reprSeen, texpr>>

NextType ==
  \/ \E leaf \in TypeLeaves \cup OtherLeaves : NewInput(leaf)
  \/ \E head \in {"List", "list", "A"} : WrapOne(head)
  \/ \E sib \in Siblings \cup {EllipsisNode} :
       \E args \in {<<texpr, sib>>, <<sib, texpr>>} :
         (sib = EllipsisNode => args[2] = sib) /\ WrapTuple(args)
  \/ \E sib \in Siblings :
       \E members \in {<<texpr, sib>>, <<sib, texpr>>} : WrapUnion(members)
  \/ DisplayAsType

SpecType == InitType /\ [][NextType]_vars

(***************************************************************************)
(* Claims about the string operations (checked under Spec).                *)
(***************************************************************************)
\* class Foo whose attribute lister returns [('a', 1), (None, 'x')]
FooExample ==
  RepObject(Foo, TRUE, <<Entry(PyStr(<<"a">>), PyInt(1)), Entry(PyNone, PyStr(<<"x">>))>>,
            <<>>, <<>>, TRUE, <<>>)

\* C1: whenever the attribute lister returns, __repr__ returns exactly
\* __repr_name__() + '(' + __repr_str__(', ') + ')' and __str__ returns
\* exactly __repr_str__(' '); Foo with [('a', 1), (None, 'x')] gives
\* "Foo(a=1, 'x')".
C1_ReprIsNameParenJoined ==
  ReprArgs(obj).ok =>
    /\ ret.op = "repr" =>
         /\ ret.res.ok
         /\ ret.res.val =
              ReprName(obj) \o <<"(">> \o ReprStr(obj, <<",", " ">>).val \o <<")">>
    /\ ret.op = "str" => ret.res = ReprStr(obj, <<" ">>)
    /\ (ret.op = "repr" /\ obj = FooExample) =>
         ret.res.val =
           <<"F", "o", "o", "(", "a", "=", "1", ",", " ", "'", "x", "'", ")">>

C1_Witness ==
  /\ ret.op = "repr"
  /\ obj = FooExample
  /\ ret.res.ok

\* name + '=' + debug(value) for every name that is not None
RenderByPresence(e) ==
  IF e.name # PyNone THEN e.name.s \o <<"=">> \o PyRepr(e.value)
  ELSE PyRepr(e.value)

\* C2: __repr_str__(sep) renders every entry whose name is not None (every
\* string name) as name + '=' + repr(value), an entry whose name is None as
\* repr(value) alone, and joins the rendered entries in order with sep.
C2_PresentNameRendersNameEquals ==
  (ret.op = "repr_str" /\ ret.res.ok) =>
    LET args == ReprArgs(obj).val
    IN ret.res.val =
         Join(ret.arg, [i \in 1..Len(args) |-> RenderByPresence(args[i])])

\* the entries the default lister is said to give: the declared names in
\* declaration order when names are declared, else what the object holds,
\* in both cases without the attributes that do not hold a value other
\* than None
DeclaredOrPresent(self) ==
  IF self.slots # <<>>
  THEN SelectSeq([i \in 1..Len(self.slots) |->
                    Entry(PyStr(self.slots[i]), self.slotvals[i])],
                 LAMBDA e : e.value \notin {PyNone, Unset})
  ELSE SelectSeq(self.dict, LAMBDA e : e.value # PyNone)

\* C3: the default __repr_args__ returns, for any object, the entries of the
\* declared __slots__ in declaration order, or else of the attributes the
\* object holds, leaving out exactly those whose value is None; it omits
\* them silently.
C3_DefaultListerReturnsNonNone ==
  (ret.op = "repr_args" /\ ~obj.custom) => ret.res = Ok(DeclaredOrPresent(obj))

\* an object with nothing to display: an empty lister result, an empty
\* declaration, or attributes that all hold None
NoDisplayable(self) ==
  IF self.custom THEN self.entries = <<>>
  ELSE /\ \A i \in 1..Len(self.slotvals) : self.slotvals[i] = PyNone
       /\ \A i \in 1..Len(self.dict) : self.dict[i].value = PyNone

\* C4: for an object with no displayable attributes __str__ returns '' and
\* __repr__ returns '<ClassName>()', and neither raises.
C4_EmptyObjectRendersEmpty ==
  NoDisplayable(obj) =>
    /\ ret.op = "str" => ret.res = Ok(<<>>)
    /\ ret.op = "repr" => ret.res = Ok(obj.cls \o <<"(", ")">>)

(***************************************************************************)
(* Claims about the generators (checked under SpecGen).                    *)
(***************************************************************************)
Done(g, kind) == g.kind = kind /\ g.pc = "done"

\* no entry can be read off the outputs
Unreadable == Entry(Unset, Unset)

DropLast(chars) == SubSeq(chars, 1, Len(chars) - 1)

\* The names read off the tokens of __pretty__ from token i on: a unit of an
\* unnamed entry is (formatted, ',', 0) and a unit of a named one is
\* (name=, formatted, ',', 0), so the third token of the unit tells them
\* apart whatever the formatter returns; the last two tokens are -1 and ')'.
RECURSIVE NamesOfTokens(_, _)
NamesOfTokens(tokens, i) ==
  IF i + 1 >= Len(tokens) THEN <<>>
  ELSE IF i + 2 > Len(tokens) THEN <<Unset>>
  ELSE IF tokens[i + 1] = PyStr(<<",">>) /\ tokens[i + 2] = PyInt(0)
  THEN <<PyNone>> \o NamesOfTokens(tokens, i + 3)
  ELSE IF tokens[i].k = "str" /\ tokens[i].s # <<>>
  THEN <<PyStr(DropLast(tokens[i].s))>> \o NamesOfTokens(tokens, i + 4)
  ELSE <<Unset>>

\* the entries read off the outputs of the two hooks: which entries are
\* named comes from __pretty__, the names and the values from __rich_repr__
EntriesOfHooks(tokens, items) ==
  LET names == NamesOfTokens(tokens, 3)
  IN IF Len(names) # Len(items) THEN <<Unreadable>>
     ELSE [i \in 1..Len(items) |->
             IF names[i] = PyNone THEN Entry(PyNone, items[i])
             ELSE IF items[i].k = "tuple" /\ Len(items[i].t) = 2 /\ items[i].t[1] = names[i]
             THEN Entry(items[i].t[1], items[i].t[2])
             ELSE Unreadable]

\* C8: the fully consumed outputs of __rich_repr__ and __pretty__ determine
\* the ordered entry sequence the attribute lister returned: the entries
\* read back from the two outputs are that sequence, whatever the names
\* (None, '', a string) and the values (tuples included).
C8_HooksDetermineEntries ==
  \A p, r \in GenIds :
    (Done(gens[p], "pretty") /\ Done(gens[r], "rich")) =>
      EntriesOfHooks(gens[p].out, gens[r].out) = ReprArgs(obj).val

\* both hooks consumed on an object whose entries include an unnamed tuple
\* value and an entry named by the empty string
C8_Witness ==
  \E p, r \in GenIds :
    /\ Done(gens[p], "pretty") /\ Done(gens[r], "rich")
    /\ gens[p].fmt = "comma"
    /\ obj.entries = <<Entry(PyNone, PyTuple(<<PyStr(<<"a">>), PyInt(1)>>)),
                       Entry(PyStr(<<>>), PyInt(1))>>

\* the tokens of one entry: [name=], fmt(value), ',', 0
UnitTokens(e, f) ==
  (IF e.name # PyNone THEN <<PyStr(e.name.s \o <<"=">>)>> ELSE <<>>)
    \o <<Fmt(f, e.value), PyStr(<<",">>), PyInt(0)>>

RECURSIVE AllUnitTokens(_, _)
AllUnitTokens(es, f) ==
  IF es = <<>> THEN <<>> ELSE UnitTokens(Head(es), f) \o AllUnitTokens(Tail(es), f)

CountOf(tokens, t) == Cardinality({i \in 1..Len(tokens) : tokens[i] = t})

NamedCount(es) == Cardinality({i \in 1..Len(es) : es[i].name # PyNone})

\* C9: a fully consumed __pretty__(fmt) has yielded exactly name + '(', 1,
\* then per entry in order [name + '=' when the name is not None],
\* fmt(value), ',', 0, then -1 and ')': 4 + 3n + (named entries) tokens,
\* with one indent and one dedent.
C9_PrettyTokens ==
  \A p \in GenIds :
    Done(gens[p], "pretty") =>
      LET es == ReprArgs(obj).val
      IN /\ gens[p].out =
              <<PyStr(obj.cls \o <<"(">>), PyInt(1)>> \o AllUnitTokens(es, gens[p].fmt)
                \o <<PyInt(-1), PyStr(<<")">>)>>
         /\ Len(gens[p].out) = 4 + 3 * Len(es) + NamedCount(es)
         /\ CountOf(gens[p].out, PyInt(1)) = 1
         /\ CountOf(gens[p].out, PyInt(-1)) = 1

\* __pretty__ consumed on an object with a named, an unnamed and an
\* empty-named entry among its entries
C9_Witness ==
  \E p \in GenIds :
    /\ Done(gens[p], "pretty")
    /\ Len(obj.entries) >= 2
    /\ \E i, j \in 1..Len(obj.entries) :
         obj.entries[i].name = PyNone /\ obj.entries[j].name = PyStr(<<>>)

\* C10: stepping, interleaving and abandoning generators of the hooks never
\* changes the object; two fully consumed generators of the same hook (and
\* formatter) have yielded the same sequence; every __repr__ made before,
\* between and after returned the same string.
C10_HooksAreStateless ==
  /\ obj = obj0
  /\ Cardinality(reprSeen) <= 1
  /\ \A g, h \in GenIds :
       (gens[g].pc = "done" /\ gens[h].pc = "done"
          /\ gens[g].kind = gens[h].kind /\ gens[g].fmt = gens[h].fmt) =>
         gens[g].out = gens[h].out

\* two generators of the same hook consumed on an object with entries, and
\* __repr__ called
C10_Witness ==
  /\ reprSeen # {}
  /\ gens[1].pc = "done" /\ gens[2].pc = "done"
  /\ gens[1].kind = "pretty" /\ gens[2].kind = "pretty"
  /\ gens[1].fmt = gens[2].fmt
  /\ Len(gens[1].out) > 4

(***************************************************************************)
(* Claims about display_as_type (checked under SpecType).                  *)
(***************************************************************************)
Displayed == shown # NotShown

\* built from plain classes, unions, literal types and parameterized types
\* that have a qualified name, to any depth
RECURSIVE PlainlyBuilt(_)
PlainlyBuilt(o) ==
  /\ o.kind \in {"class", "union", "param", "literal"}
  /\ o.kind = "param" => o.hasQual
  /\ \A i \in 1..Len(o.args) : PlainlyBuilt(o.args[i])

\* the reference renderer
RECURSIVE Rendered(_)
Rendered(o) ==
  CASE o.kind = "class" -> o.qualname
    [] o.kind = "union" ->
         <<"U", "n", "i", "o", "n", "[">> \o Join(<<",", " ">>, [i \in 1..Len(o.args) |-> Rendered(o.args[i])]) \o <<"]">>
    [] o.kind = "param" ->
         o.qualname \o <<"[">>
           \o Join(<<",", " ">>, [i \in 1..Len(o.args) |-> Rendered(o.args[i])]) \o <<"]">>
    [] o.kind = "literal" ->
         o.qualname \o <<"[">>
           \o Join(<<",", " ">>, [i \in 1..Len(o.vals) |-> PyRepr(o.vals[i])]) \o <<"]">>

\* C5: for a type expression built from plain classes, unions, parameterized
\* types (that have a qualified name) and literal types, to any depth,
\* display_as_type equals the reference renderer: qualified name of a class,
\* 'Union[' members ']', qualified-name '[' arguments ']', the arguments of
\* a literal by repr and never as types; int -> 'int', List[int] ->
\* 'List[int]', Union[int, Literal[1, 'x']] -> "Union[int, Literal[1, 'x']]".
C5_DisplayEqualsReference ==
  (Displayed /\ PlainlyBuilt(texpr)) =>
    /\ shown = Ok(Rendered(texpr))
    /\ texpr = IntClass => shown.val = <<"i", "n", "t">>
    /\ texpr = TypingGeneric(<<"L", "i", "s", "t">>, <<IntClass>>) => shown.val = <<"L", "i", "s", "t", "[", "i", "n", "t", "]">>
    /\ texpr = Literal1x => shown.val = <<"L", "i", "t", "e", "r", "a", "l", "[", "1", ",", " ", "'", "x", "'", "]">>
    /\ texpr = TypingUnion(<<IntClass, Literal1x>>) =>
         shown.val = <<"U", "n", "i", "o", "n", "[", "i", "n", "t", ",", " ", "L", "i", "t", "e", "r", "a", "l", "[", "1", ",", " ", "'", "x", "'", "]", "]">>

\* a generic around a union with a literal member, displayed
C5_Witness ==
  /\ Displayed
  /\ texpr = TypingGeneric(<<"L", "i", "s", "t">>, <<TypingUnion(<<IntClass, Literal1x>>)>>)
  /\ shown.val = <<"L", "i", "s", "t", "[", "U", "n", "i", "o", "n", "[", "i", "n", "t", ",", " ", "L", "i", "t", "e", "r", "a", "l", "[", "1", ",", " ", "'", "x", "'", "]", "]", "]">>

\* C6: a function displays as its __name__, ... as '...', an instance of a
\* Representation class as its repr (never as its class name), a
\* TypeAliasType as its str; any other input that is no class, generic or
\* typing object displays as its class does: display_as_type(v) =
\* display_as_type(type(v)).
C6_CasesInPriorityOrder ==
  Displayed =>
    /\ texpr.kind = "func" => shown = Ok(texpr.name)
    /\ texpr.kind = "ellipsis" => shown = Ok(<<".", ".", ".">>)
    /\ texpr.kind = "repr" =>
         /\ shown = Repr(texpr.obj)
         /\ shown # Ok(texpr.obj.cls)
    /\ texpr.kind = "alias" => shown = Ok(texpr.text)
    /\ texpr.kind = "value" =>
         /\ shown = display_as_type(ClassOf(texpr))
         /\ shown = Ok(ValueClass(texpr.vals[1]))

\* the value 'x' displayed as str
C6_Witness ==
  /\ Displayed
  /\ texpr = ValueNode(PyStr(<<"x">>))
  /\ shown = Ok(<<"s", "t", "r">>)

\* C7: display_as_type of a type expression returns a string and never
\* raises for a missing __qualname__, at any depth; of a parameterized type
\* without a __qualname__ it returns str(obj).
C7_MissingQualnameFallsBack ==
  (Displayed /\ IsTypeExpr(texpr)) =>
    /\ shown.ok
    /\ (texpr.kind = "param" /\ ~texpr.hasQual) => shown = Ok(ObjRepr(texpr))
    /\ texpr = AliasGeneric(<<"A">>, <<TypingGeneric(<<"L", "i", "s", "t">>, <<IntClass>>)>>) =>
         shown.val = <<"A", "[", "t", "y", "p", "i", "n", "g", ".", "L", "i", "s", "t", "[", "i", "n", "t", "]", "]">>

\* a parameterized type without a qualified name inside a generic, and the
\* same around a generic, displayed
C7_Witness ==
  /\ Displayed
  /\ shown.ok
  /\ texpr = TypingGeneric(<<"L", "i", "s", "t">>, <<AliasGeneric(<<"A">>, <<TypingGeneric(<<"L", "i", "s", "t">>, <<IntClass>>)>>)>>)
  /\ shown.val = <<"L", "i", "s", "t", "[", "A", "[", "t", "y", "p", "i", "n", "g", ".", "L", "i", "s", "t", "[", "i", "n", "t", "]", "]", "]">>

====
